---------------------------- MODULE Spec2Model ----------------------------
(***************************************************************************)
(* A model of parkrun_analyser.py: one run of analyse_results, that is     *)
(* fetch (_request_results_page), parse (_parse_results_page, with         *)
(* _normalise_time_string) and render (_generate_graph).                   *)
(*                                                                         *)
(* Strings whose characters the program inspects (dates, times, tick       *)
(* labels) are sequences of one-character strings.  A table cell that      *)
(* pandas.read_html found empty is NaN and is written <<>>: read_html      *)
(* never yields an empty string.  Column names, event names and error      *)
(* messages are opaque and stay TLA+ strings.                              *)
(***************************************************************************)
EXTENDS Integers, Sequences, FiniteSets, TLC

VARIABLES
    pc,            \* position of the run in analyse_results
    session,       \* the requests.Session: "none", "open" or "closed"
    getCount,      \* number of session.get calls issued so far
    response,      \* the Response: [status_code, text], or NoResponse
    tables,        \* what pd.read_html returned (line 85)
    selected,      \* index in tables of results_df, 0 when none was chosen
    normalised,    \* results_df["Time"].apply(_normalise_time_string)
    data_frame,    \* the DataFrame _parse_results_page returned
    tickvals,      \* Y axis tick values set by _generate_graph
    ticktext,      \* Y axis tick labels set by _generate_graph
    file0,         \* results.html as the run found it
    file,          \* results.html now
    error,         \* the exception that ended the run, or NoError
    trace          \* the stages entered so far, in order

vars == <<pc, session, getCount, response, tables, selected, normalised,
          data_frame, tickvals, ticktext, file0, file, error, trace>>

(***************************************************************************)
(* Bounds of the model.                                                    *)
(***************************************************************************)
\* tables on a fetched page
MaxTables == 2
\* rows of the results table when the rows are enumerated
MaxRows == 2
\* characters of a Time cell when the time strings are enumerated
MaxTimeLen == 5

(***************************************************************************)
(* Characters and numbers.                                                 *)
(***************************************************************************)
Digits == {"0", "1", "2", "3", "4", "5", "6", "7", "8", "9"}

DigitVal(c) ==
    CASE c = "0" -> 0 [] c = "1" -> 1 [] c = "2" -> 2 [] c = "3" -> 3
      [] c = "4" -> 4 [] c = "5" -> 5 [] c = "6" -> 6 [] c = "7" -> 7
      [] c = "8" -> 8 [] c = "9" -> 9

DigitChar(n) ==
    CASE n = 0 -> "0" [] n = 1 -> "1" [] n = 2 -> "2" [] n = 3 -> "3"
      [] n = 4 -> "4" [] n = 5 -> "5" [] n = 6 -> "6" [] n = 7 -> "7"
      [] n = 8 -> "8" [] n = 9 -> "9"

AllDigits(s) == \A i \in 1..Len(s) : s[i] \in Digits

\* int("".join(number)) of a digit string: the value of its first k digits
RECURSIVE ToIntUpTo(_, _)
ToIntUpTo(s, k) ==
    IF k = 0 THEN 0 ELSE 10 * ToIntUpTo(s, k - 1) + DigitVal(s[k])

ToInt(s) == ToIntUpTo(s, Len(s))

\* the decimal digits of n >= 0, as str(n) writes them
RECURSIVE Decimal(_)
Decimal(n) ==
    IF n < 10 THEN <<DigitChar(n)>>
    ELSE Append(Decimal(n \div 10), DigitChar(n % 10))

\* the format specification 02d: zero-padded to a width of at least two
Format02d(n) ==
    IF n < 10 THEN <<"0">> \o Decimal(n) ELSE Decimal(n)

\* str.count(ch)
Count(s, ch) == Cardinality({i \in 1..Len(s) : s[i] = ch})

\* the position in s of the j-th occurrence of ch; 0 for j = 0 and
\* Len(s) + 1 past the last occurrence
SepPos(s, ch, j) ==
    IF j = 0 THEN 0
    ELSE IF j > Count(s, ch) THEN Len(s) + 1
    ELSE CHOOSE i \in 1..Len(s) :
             s[i] = ch /\ Cardinality({k \in 1..i : s[k] = ch}) = j

\* str.split(ch): the fields between the occurrences of ch
Split(s, ch) ==
    [j \in 1..(Count(s, ch) + 1) |->
        SubSeq(s, SepPos(s, ch, j - 1) + 1, SepPos(s, ch, j) - 1)]

\* all sequences over S of length lo..hi
SeqsUpTo(S, lo, hi) == UNION {[1..n -> S] : n \in lo..hi}

Range(f) == {f[i] : i \in DOMAIN f}

NaN == <<>>
NaT == <<>>
NoResponse == [status_code |-> 0, text |-> <<>>]
NoError == [type |-> "none", msg |-> "", code |-> 0]
NoFrame == [columns |-> <<>>, rows |-> <<>>]

(***************************************************************************)
(* _normalise_time_string (lines 46-52).                                   *)
(***************************************************************************)
\* variant: prepends at any colon count above zero
_normalise_time_string_any(time_str) ==
    IF Count(time_str, ":") >= 1 THEN <<"0", "0", ":">> \o time_str
    ELSE time_str

\* variant: reads one colon as hours:minutes
_normalise_time_string_hhmm(time_str) ==
    IF Count(time_str, ":") = 1 THEN time_str \o <<":", "0", "0">>
    ELSE time_str

\* lines 48-52
_normalise_time_string(time_str) ==
    IF Count(time_str, ":") = 1 THEN <<"0", "0", ":">> \o time_str
    ELSE time_str

(***************************************************************************)
(* pd.to_timedelta(...).dt.total_seconds().astype(int) of one string       *)
(* (line 99), as pandas parses a timedelta string made of digits, colons   *)
(* and letters that are no unit abbreviation: a scan that collects the     *)
(* digits of the current number and, at each colon, adds the number as     *)
(* hours, then minutes, then seconds.  Results are kept in seconds.        *)
(***************************************************************************)
TdStart ==
    [number |-> <<>>, unit |-> FALSE, current_unit |-> "none",
     result |-> 0, raised |-> FALSE]

TdChar(st, c) ==
    IF st.raised THEN st
    ELSE IF c \in Digits THEN
        \* a digit after a unit evaluates number and unit: the unit is invalid
        IF st.unit THEN [st EXCEPT !.raised = TRUE]
        ELSE [st EXCEPT !.number = Append(@, c)]
    ELSE IF c = ":" THEN
        \* "expecting hh:mm:ss format" when no number precedes the colon
        IF st.number = <<>> THEN [st EXCEPT !.raised = TRUE]
        ELSE LET cu == CASE st.current_unit = "none" -> "h"
                         [] st.current_unit = "h" -> "m"
                         [] OTHER -> "s"
                 m == CASE cu = "h" -> 3600 [] cu = "m" -> 60 [] OTHER -> 1
             IN [st EXCEPT !.current_unit = cu,
                           !.result = @ + ToInt(st.number) * m,
                           !.number = <<>>,
                           !.unit = FALSE]
    ELSE [st EXCEPT !.unit = TRUE]

\* the scan of the first k characters of s; each state is computed once
RECURSIVE TdScan(_, _)
TdScan(s, k) ==
    IF k = 0 THEN TdStart
    ELSE CHOOSE r \in {TdChar(st, s[k]) : st \in {TdScan(s, k - 1)}} : TRUE

\* [ok, seconds]: ok is FALSE when to_timedelta or astype(int) raises
TdFinish(st) ==
    IF st.raised THEN [ok |-> FALSE, seconds |-> 0]
    ELSE IF st.current_unit # "none" THEN
        \* "expected hh:mm:ss format" unless the last field is the seconds
        IF st.current_unit = "m" /\ st.number # <<>>
        THEN [ok |-> TRUE, seconds |-> st.result + ToInt(st.number)]
        ELSE [ok |-> FALSE, seconds |-> 0]
    ELSE IF st.unit \/ st.number = <<>> THEN [ok |-> FALSE, seconds |-> 0]
    \* a bare number is a count of nanoseconds; astype(int) truncates
    ELSE [ok |-> TRUE, seconds |-> ToInt(st.number) \div 1000000000]

to_timedelta_seconds(s) ==
    \* the empty string is NaT, which astype(int) refuses
    IF s = <<>> THEN [ok |-> FALSE, seconds |-> 0]
    ELSE TdFinish(TdScan(s, Len(s)))

(***************************************************************************)
(* pd.to_datetime(..., format="%d/%m/%Y") of one cell (line 96).  The      *)
(* whole string must match: one or two digits of a day 1..31, "/", one or  *)
(* two digits of a month 1..12, "/", four digits of a year; the day must   *)
(* exist in that month and the date must fit a nanosecond timestamp.  A    *)
(* missing value (NaN) is not parsed: it becomes NaT.                      *)
(***************************************************************************)
IsLeap(y) == (y % 4 = 0 /\ y % 100 # 0) \/ y % 400 = 0

DaysInMonth(y, m) ==
    IF m = 2 THEN (IF IsLeap(y) THEN 29 ELSE 28)
    ELSE IF m \in {4, 6, 9, 11} THEN 30 ELSE 31

\* the fields f of the string, split at "/"
StrptimeFields(f) ==
    LET wellFormed ==
            /\ Len(f) = 3
            /\ \A i \in 1..3 : f[i] # <<>> /\ AllDigits(f[i])
            /\ Len(f[1]) \in {1, 2} /\ ToInt(f[1]) \in 1..31
            /\ Len(f[2]) \in {1, 2} /\ ToInt(f[2]) \in 1..12
            /\ Len(f[3]) = 4
    IN IF wellFormed
          /\ ToInt(f[1]) <= DaysInMonth(ToInt(f[3]), ToInt(f[2]))
          /\ ToInt(f[3]) \in 1678..2261
       THEN [ok |-> TRUE, date |-> <<ToInt(f[3]), ToInt(f[2]), ToInt(f[1])>>]
       ELSE [ok |-> FALSE, date |-> NaT]

Strptime(s) == CHOOSE r \in {StrptimeFields(f) : f \in {Split(s, "/")}} : TRUE

to_datetime(cell) ==
    IF cell = NaN THEN [ok |-> TRUE, date |-> NaT] ELSE Strptime(cell)


(***************************************************************************)
(* _parse_results_page (lines 81-101).  page_contents is the page as the   *)
(* sequence of its tables in document order; a table is [columns, rows],   *)
(* each row a function from the table's column names to cells.             *)
(***************************************************************************)
RequiredColumns == {"Event", "Run Date", "Time"}

ResultColumns == <<"Event", "Run Date", "time_seconds">>

\* line 88
Qualifies(df) == RequiredColumns \subseteq Range(df.columns)

\* lines 87-92: the index of the first table that qualifies, 0 for the else
RECURSIVE FirstFrom(_, _)
FirstFrom(tbls, i) ==
    IF i > Len(tbls) THEN 0
    ELSE IF Qualifies(tbls[i]) THEN i
    ELSE FirstFrom(tbls, i + 1)

\* variant: the last table that qualifies
SelectLastTable(tbls) ==
    IF \E i \in 1..Len(tbls) : Qualifies(tbls[i])
    THEN CHOOSE i \in 1..Len(tbls) :
             Qualifies(tbls[i]) /\ \A j \in (i + 1)..Len(tbls) : ~Qualifies(tbls[j])
    ELSE 0

SelectTable(tbls) == FirstFrom(tbls, 1)

\* variant: rows without a date are dropped
ResultFrameDropNaT(df, dates, secs) ==
    [columns |-> ResultColumns,
     rows |-> SelectSeq([i \in 1..Len(df.rows) |->
                             <<df.rows[i]["Event"], dates[i], secs[i]>>],
                        LAMBDA r : r[2] # NaT)]

\* line 101, with the columns lines 96 and 99 assigned
ResultFrame(df, dates, secs) ==
    [columns |-> ResultColumns,
     rows |-> [i \in 1..Len(df.rows) |->
                   <<df.rows[i]["Event"], dates[i], secs[i]>>]]

Raise(type, msg, code) == [type |-> type, msg |-> msg, code |-> code]

\* variant: the exception is swallowed and an empty frame returned
ParseSwallowed(e, tbls, sel, norm) ==
    [error |-> NoError, tables |-> tbls, selected |-> sel, normalised |-> norm,
     data_frame |-> [columns |-> ResultColumns, rows |-> <<>>]]

\* a raise inside _parse_results_page: nothing is returned
ParseFailed(e, tbls, sel, norm) ==
    [error |-> e, tables |-> tbls, selected |-> sel, normalised |-> norm,
     data_frame |-> NoFrame]

_parse_results_page(page_contents) ==
    \* line 85: read_html raises when the page holds no table
    IF page_contents = <<>>
    THEN ParseFailed(Raise("ValueError", "No tables found", 0), <<>>, 0, <<>>)
    ELSE
    LET tbls == page_contents
        sel == SelectTable(tbls)
    IN IF sel = 0
       THEN ParseFailed(Raise("RuntimeError", "Could not find results table", 0),
                        tbls, 0, <<>>)
       ELSE
       LET df == tbls[sel]
           n == Len(df.rows)
           dt == [i \in 1..n |-> to_datetime(df.rows[i]["Run Date"])]
           norm == [i \in 1..n |-> _normalise_time_string(df.rows[i]["Time"])]
           td == [i \in 1..n |-> to_timedelta_seconds(norm[i])]
       IN IF \E i \in 1..n : ~dt[i].ok
          THEN ParseFailed(Raise("ValueError", "time data doesn't match format", 0),
                           tbls, sel, <<>>)
          \* apply calls time_str.count on a float
          ELSE IF \E i \in 1..n : df.rows[i]["Time"] = NaN
          THEN ParseFailed(Raise("AttributeError", "no attribute 'count'", 0),
                           tbls, sel, <<>>)
          ELSE IF \E i \in 1..n : ~td[i].ok
          THEN ParseFailed(Raise("ValueError", "expected hh:mm:ss format", 0),
                           tbls, sel, norm)
          ELSE [error |-> NoError, tables |-> tbls, selected |-> sel,
                normalised |-> norm,
                data_frame |-> ResultFrame(df, [i \in 1..n |-> dt[i].date],
                                               [i \in 1..n |-> td[i].seconds])]

(***************************************************************************)
(* _generate_graph (lines 32-43): the Y axis ticks.                        *)
(***************************************************************************)
\* variant: minutes reduced modulo the hour
TickLabelHours(v) ==
    Format02d((v \div 60) % 60) \o <<":">> \o Format02d(v % 60)

\* line 37: f"{v//60:02d}:{v % 60:02d}"
TickLabel(v) == Format02d(v \div 60) \o <<":">> \o Format02d(v % 60)

\* line 37: data_frame["time_seconds"]
TimeSeconds(df) == [i \in 1..Len(df.rows) |-> df.rows[i][3]]

(***************************************************************************)
(* _request_results_page (lines 55-78) and the status checks of            *)
(* analyse_results (lines 17-21).                                          *)
(***************************************************************************)
\* variant: the session is left as it is
SessionLeak(s) == s

\* Session.__exit__ at the end of the with block (line 56)
SessionExit(s) == "closed"

\* raise_for_status (line 76) raises for the 4xx and 5xx codes
IsHTTPError(status_code) == status_code \in 400..599

\* variant: only 202 is refused
StatusErrorOnly202(status_code) ==
    IF status_code = 202
    THEN Raise("RuntimeError", "Load page manually and try again", 0)
    ELSE NoError

\* lines 17-21
StatusError(status_code) ==
    IF status_code # 200
    THEN IF status_code = 202
         THEN Raise("RuntimeError", "Load page manually and try again", 0)
         ELSE Raise("RuntimeError", "Failed to load page, error code", status_code)
    ELSE NoError


(***************************************************************************)
(* The inputs of a run: the outcome of the GET and the page it returns.    *)
(***************************************************************************)
Statuses == {200, 202, 203, 304, 404, 500}

TransportErrors == {"ConnectionError", "Timeout"}

Events == {"Riverside parkrun", "Bushy parkrun"}

Date_04_01_2020 == <<"0", "4", "/", "0", "1", "/", "2", "0", "2", "0">>
Date_11_01_2020 == <<"1", "1", "/", "0", "1", "/", "2", "0", "2", "0">>
Date_ISO == <<"2", "0", "2", "1", "-", "0", "1", "-", "0", "1">>
Date_31_02 == <<"3", "1", "/", "0", "2", "/", "2", "0", "2", "0">>

Time_25_13 == <<"2", "5", ":", "1", "3">>
Time_1_05_00 == <<"1", ":", "0", "5", ":", "0", "0">>
Time_100_00 == <<"1", "0", "0", ":", "0", "0">>
Time_Junk == <<"x">>

Row(e, d, t) == [Event |-> e, RunDate |-> d, Time |-> t]

\* the cell of source row r in column c
CellOf(r, c) ==
    CASE c = "Event" -> r.Event
      [] c = "Run Date" -> r.RunDate
      [] c = "Date" -> r.RunDate
      [] c = "Time" -> r.Time
      [] OTHER -> <<"x">>

MakeTable(layout, rs) ==
    [columns |-> layout,
     rows |-> [i \in 1..Len(rs) |-> [c \in Range(layout) |-> CellOf(rs[i], c)]]]

Layouts ==
    { <<"Event", "Run Date", "Time">>,
      <<"Time", "extra", "Run Date", "Event">>,
      <<"Event", "Date", "Time">>,
      <<"Event", "Run Date">> }

SampleRows ==
    { <<>>,
      <<Row("Riverside parkrun", Date_04_01_2020, Time_25_13),
        Row("Riverside parkrun", Date_11_01_2020, Time_1_05_00)>>,
      <<Row("Bushy parkrun", Date_11_01_2020, Time_100_00),
        Row("Riverside parkrun", Date_04_01_2020, Time_25_13)>>,
      <<Row("Riverside parkrun", Date_04_01_2020, Time_25_13),
        Row("Riverside parkrun", Date_ISO, Time_1_05_00)>>,
      <<Row("Riverside parkrun", NaN, Time_25_13),
        Row("Riverside parkrun", Date_11_01_2020, Time_1_05_00)>>,
      <<Row("Riverside parkrun", Date_04_01_2020, Time_Junk)>> }

SampleTables == {MakeTable(l, rs) : l \in Layouts, rs \in SampleRows}

\* the pages a 200 response may carry
Pages == SeqsUpTo(SampleTables, 0, MaxTables)

\* one page for each way the parse can end: the order of the steps of a run
\* depends on the page only through the outcome of the parse
FlowPages ==
    {<<MakeTable(<<"Event", "Run Date", "Time">>, rs)>> : rs \in SampleRows}
        \cup {<<>>, <<MakeTable(<<"Event", "Date", "Time">>, <<>>)>>}

\* the bodies of the other responses: none, or a page all the same
OtherPages ==
    { <<>>,
      <<MakeTable(<<"Event", "Run Date", "Time">>,
                  <<Row("Riverside parkrun", Date_04_01_2020, Time_25_13)>>)>> }

\* the pages of the row enumeration: one results table, every row sequence
RowKinds ==
    {Row(e, d, t) : e \in Events,
                    d \in {Date_04_01_2020, Date_11_01_2020, Date_ISO, Date_31_02,
                           NaN},
                    t \in {Time_25_13, Time_1_05_00, Time_Junk, NaN}}

RowPages ==
    {<<MakeTable(<<"Event", "Run Date", "Time", "extra">>, rs)>> :
        rs \in SeqsUpTo(RowKinds, 0, MaxRows)}

\* the pages of the time enumeration: one row, every Time string
TimeChars == {"0", "1", "5", ":", "x"}

TimePages ==
    {<<MakeTable(<<"Event", "Run Date", "Time">>,
                 <<Row("Riverside parkrun", Date_04_01_2020, t)>>)>> :
        t \in SeqsUpTo(TimeChars, 1, MaxTimeLen)}

Files == {"absent", "old chart"}

(***************************************************************************)
(* The run of analyse_results.                                             *)
(***************************************************************************)
Init ==
    /\ pc = "start"
    /\ session = "none"
    /\ getCount = 0
    /\ response = NoResponse
    /\ tables = <<>>
    /\ selected = 0
    /\ normalised = <<>>
    /\ data_frame = NoFrame
    /\ tickvals = <<>>
    /\ ticktext = <<>>
    /\ file0 \in Files
    /\ file = file0
    /\ error = NoError
    /\ trace = <<>>

\* the state line 23 is reached in, for a page of the given set
Fetched(pages) ==
    /\ pc = "parse"
    /\ session = "closed"
    /\ getCount = 1
    /\ response \in {[status_code |-> 200, text |-> p] : p \in pages}
    /\ tables = <<>>
    /\ selected = 0
    /\ normalised = <<>>
    /\ data_frame = NoFrame
    /\ tickvals = <<>>
    /\ ticktext = <<>>
    /\ file0 \in Files
    /\ file = file0
    /\ error = NoError
    /\ trace = <<"fetch">>

InitRows == Fetched(RowPages)

InitTime == Fetched(TimePages)

\* lines 15, 56-73: the call, Session() and the with block are entered
OpenSession ==
    /\ pc = "start"
    /\ pc' = "get"
    /\ session' = "open"
    /\ trace' = Append(trace, "fetch")
    /\ UNCHANGED <<getCount, response, tables, selected, normalised, data_frame,
                   tickvals, ticktext, file0, file, error>>

\* line 75: session.get returns a response or raises; the raise leaves the
\* with block and the run
SessionGetFrom(pages) ==
    /\ pc = "get"
    /\ getCount' = getCount + 1
    /\ \E failed \in BOOLEAN :
         IF failed
         THEN /\ \E e \in TransportErrors : error' = Raise(e, "", 0)
              /\ session' = SessionExit(session)
              /\ pc' = "error"
              /\ UNCHANGED response
         ELSE /\ \E s \in Statuses :
                   \E p \in (IF s = 200 THEN pages ELSE OtherPages) :
                       response' = [status_code |-> s, text |-> p]
              /\ pc' = "raise_for_status"
              /\ UNCHANGED <<session, error>>
    /\ UNCHANGED <<tables, selected, normalised, data_frame, tickvals, ticktext,
                   file0, file, trace>>

SessionGet == SessionGetFrom(Pages)

SessionGetFlow == SessionGetFrom(FlowPages)

\* lines 76-78: raise_for_status, then the return; both leave the with block
RaiseForStatus ==
    /\ pc = "raise_for_status"
    /\ session' = SessionExit(session)
    /\ IF IsHTTPError(response.status_code)
       THEN /\ error' = Raise("HTTPError", "Client or Server Error",
                              response.status_code)
            /\ pc' = "error"
       ELSE /\ pc' = "check_status"
            /\ UNCHANGED error
    /\ UNCHANGED <<getCount, response, tables, selected, normalised, data_frame,
                   tickvals, ticktext, file0, file, trace>>

\* lines 17-21
CheckStatus ==
    /\ pc = "check_status"
    /\ error' = StatusError(response.status_code)
    /\ pc' = IF error' = NoError THEN "parse" ELSE "error"
    /\ UNCHANGED <<session, getCount, response, tables, selected, normalised,
                   data_frame, tickvals, ticktext, file0, file, trace>>

\* line 23
ParseResultsPage ==
    /\ pc = "parse"
    /\ LET r == _parse_results_page(response.text)
       IN /\ tables' = r.tables
          /\ selected' = r.selected
          /\ normalised' = r.normalised
          /\ data_frame' = r.data_frame
          /\ error' = r.error
          /\ pc' = IF r.error = NoError THEN "render" ELSE "error"
    /\ trace' = Append(trace, "parse")
    /\ UNCHANGED <<session, getCount, response, tickvals, ticktext, file0, file>>

\* line 29: _generate_graph sets the ticks and writes results.html; a failing
\* write_html may leave a partial file
GenerateGraph ==
    /\ pc = "render"
    /\ tickvals' = TimeSeconds(data_frame)
    /\ ticktext' = [i \in 1..Len(tickvals') |-> TickLabel(tickvals'[i])]
    /\ \E written \in BOOLEAN :
         IF written
         THEN /\ file' = "chart"
              /\ pc' = "done"
              /\ UNCHANGED error
         ELSE /\ file' \in {file, "partial"}
              /\ error' = Raise("OSError", "write_html failed", 0)
              /\ pc' = "error"
    /\ trace' = Append(trace, "render")
    /\ UNCHANGED <<session, getCount, response, tables, selected, normalised,
                   data_frame, file0>>

Next ==
    \/ OpenSession
    \/ SessionGet
    \/ RaiseForStatus
    \/ CheckStatus
    \/ ParseResultsPage
    \/ GenerateGraph

NextParse ==
    \/ ParseResultsPage
    \/ GenerateGraph

Spec == Init /\ [][Next]_vars

NextFlow ==
    \/ OpenSession
    \/ SessionGetFlow
    \/ RaiseForStatus
    \/ CheckStatus
    \/ ParseResultsPage
    \/ GenerateGraph

\* the run is sequential code: a step that can be taken is taken
FairSpec == Init /\ [][NextFlow]_vars /\ WF_vars(NextFlow)

SpecRows == InitRows /\ [][NextParse]_vars

SpecTime == InitTime /\ [][NextParse]_vars


(***************************************************************************)
(* Vocabulary of the properties.                                           *)
(***************************************************************************)
Stages == <<"fetch", "parse", "render">>

Terminated == pc \in {"done", "error"}

\* the status checks of lines 76 and 17-21 are behind the run
StatusSettled ==
    response # NoResponse /\ pc \notin {"raise_for_status", "check_status"}

\* _parse_results_page was called and has returned or raised
ParseDone == Len(trace) >= 2

\* _parse_results_page returned a DataFrame
ParseReturned == ParseDone /\ data_frame # NoFrame

\* the table line 89 chose, as the page holds it
SourceTable == response.text[selected]

HasColumn(df, c) == \E k \in 1..Len(df.columns) : df.columns[k] = c

HasAllThree(df) ==
    HasColumn(df, "Event") /\ HasColumn(df, "Run Date") /\ HasColumn(df, "Time")

\* the Time cell of the one row of the time enumeration
TheTime == response.text[1].rows[1]["Time"]

\* digits ":" digits, and digits ":" digits ":" digits
Fields(t) == Split(t, ":")

IsDigitFields(t, n) ==
    Len(Fields(t)) = n /\ \A i \in 1..n : Fields(t)[i] # <<>> /\ AllDigits(Fields(t)[i])

(***************************************************************************)
(* C1: for every status code the GET returns, 200 proceeds to parsing, 202 *)
(* raises the "Load page manually" error and every other code, 404 and 500 *)
(* included, raises the "Failed to load page" error carrying the code.     *)
(* The code raises HTTPError from raise_for_status for 404 and 500.        *)
(***************************************************************************)
C1_StatusOutcome ==
    StatusSettled =>
        CASE response.status_code = 200 ->
                 pc = "parse" \/ ParseDone
          [] response.status_code = 202 ->
                 /\ pc = "error"
                 /\ error = Raise("RuntimeError", "Load page manually and try again", 0)
          [] OTHER ->
                 /\ pc = "error"
                 /\ error = Raise("RuntimeError", "Failed to load page, error code",
                                  response.status_code)

(***************************************************************************)
(* C2: results.html is written only after the fetch returned 200, a        *)
(* results table was selected and every date and time of it was            *)
(* normalised; a run that a fetch, table or parse error ends leaves        *)
(* results.html as it found it.                                            *)
(***************************************************************************)
C2_WriteOnlyAfterAllStages ==
    /\ file # file0 =>
           /\ response.status_code = 200
           /\ selected \in 1..Len(tables)
           /\ HasAllThree(tables[selected])
           /\ Len(data_frame.rows) = Len(tables[selected].rows)
           /\ Len(normalised) = Len(tables[selected].rows)
           /\ \A i \in 1..Len(data_frame.rows) :
                  /\ data_frame.rows[i][2] = NaT \/ Len(data_frame.rows[i][2]) = 3
                  /\ data_frame.rows[i][3] \in Nat
           /\ trace = Stages
    /\ (pc = "error" /\ error.type # "OSError") => file = file0

C2_Witness ==
    pc = "done" /\ file0 = "old chart" /\ file = "chart" /\ Len(data_frame.rows) = 2

(***************************************************************************)
(* C3: of the parsed tables, _parse_results_page selects the first in      *)
(* document order whose columns hold "Event", "Run Date" and "Time",       *)
(* whatever the other columns and the column order, and raises "Could not  *)
(* find results table" exactly when no parsed table qualifies.             *)
(***************************************************************************)
C3_FirstQualifyingTable ==
    (ParseDone /\ response.text # <<>>) =>
        /\ tables = response.text
        /\ selected # 0 =>
               /\ selected \in 1..Len(tables)
               /\ HasAllThree(tables[selected])
               /\ \A j \in 1..(selected - 1) : ~HasAllThree(tables[j])
        /\ (selected = 0) <=> (\A j \in 1..Len(tables) : ~HasAllThree(tables[j]))
        /\ (error = Raise("RuntimeError", "Could not find results table", 0))
               <=> (\A j \in 1..Len(tables) : ~HasAllThree(tables[j]))

C3_Witness ==
    /\ ParseDone
    /\ Len(tables) = 2
    /\ tables[1].columns = <<"Event", "Date", "Time">>
    /\ tables[2].columns = <<"Time", "extra", "Run Date", "Event">>
    /\ selected = 2

(***************************************************************************)
(* C4: a Time "M:SS" is normalised to "00:M:SS" and stored as M*60 + SS    *)
(* seconds; a Time "H:MM:SS" is left as it is and stored as                *)
(* H*3600 + MM*60 + SS seconds; both are non-negative integers.            *)
(***************************************************************************)
C4_Duration ==
    ParseDone =>
        /\ IsDigitFields(TheTime, 2) =>
               /\ ParseReturned
               /\ normalised = << <<"0", "0", ":">> \o TheTime >>
               /\ data_frame.rows[1][3] =
                      ToInt(Fields(TheTime)[1]) * 60 + ToInt(Fields(TheTime)[2])
               /\ data_frame.rows[1][3] \in Nat
        /\ IsDigitFields(TheTime, 3) =>
               /\ ParseReturned
               /\ normalised = <<TheTime>>
               /\ data_frame.rows[1][3] =
                      ToInt(Fields(TheTime)[1]) * 3600
                      + ToInt(Fields(TheTime)[2]) * 60
                      + ToInt(Fields(TheTime)[3])
               /\ data_frame.rows[1][3] \in Nat

C4_Witness ==
    /\ ParseReturned
    /\ TheTime = <<"1", "5", ":", "1", "0">>
    /\ normalised = << <<"0", "0", ":", "1", "5", ":", "1", "0">> >>
    /\ data_frame.rows[1][3] = 910

(***************************************************************************)
(* C5: the returned result set has the three columns event name, run date  *)
(* and duration in seconds, in that order, and one row per row of the      *)
(* selected table in the same order: no row is sorted, dropped, duplicated *)
(* or moved, and no other source column is carried over.                   *)
(***************************************************************************)
ExpectedDate(cell) ==
    CASE cell = Date_04_01_2020 -> <<2020, 1, 4>>
      [] cell = Date_11_01_2020 -> <<2020, 1, 11>>
      [] cell = NaN -> NaT

ExpectedSeconds(cell) ==
    CASE cell = Time_25_13 -> 1513
      [] cell = Time_1_05_00 -> 3900

C5_RowsPreserved ==
    ParseReturned =>
        /\ data_frame.columns = <<"Event", "Run Date", "time_seconds">>
        /\ Len(data_frame.rows) = Len(SourceTable.rows)
        /\ \A i \in 1..Len(data_frame.rows) :
               data_frame.rows[i] =
                   << SourceTable.rows[i]["Event"],
                      ExpectedDate(SourceTable.rows[i]["Run Date"]),
                      ExpectedSeconds(SourceTable.rows[i]["Time"]) >>

C5_Witness ==
    /\ ParseReturned
    /\ data_frame.rows = << <<"Riverside parkrun", <<2020, 1, 11>>, 3900>>,
                            <<"Bushy parkrun", <<2020, 1, 4>>, 1513>> >>

(***************************************************************************)
(* C6: the Y axis tick values are the duration values of the result set,   *)
(* and the label of the tick for v is v div 60 zero-padded to two digits,  *)
(* a colon, and v mod 60 zero-padded to two digits; minutes are not        *)
(* reduced into hours: 1513 is "25:13" and 3900 is "65:00".                *)
(***************************************************************************)
LabelOf(lab, v) ==
    LET n == Len(lab)
        mm == SubSeq(lab, 1, n - 3)
        ss == SubSeq(lab, n - 1, n)
    IN /\ n >= 5
       /\ lab[n - 2] = ":"
       /\ AllDigits(mm) /\ AllDigits(ss)
       /\ ToInt(mm) = v \div 60
       /\ ToInt(ss) = v % 60
       /\ Len(mm) > 2 => mm[1] # "0"

C6_TickLabels ==
    Len(trace) = 3 =>
        /\ Len(tickvals) = Len(data_frame.rows)
        /\ Len(ticktext) = Len(tickvals)
        /\ \A i \in 1..Len(tickvals) :
               /\ tickvals[i] = data_frame.rows[i][3]
               /\ LabelOf(ticktext[i], tickvals[i])
               /\ tickvals[i] = 1513 => ticktext[i] = <<"2", "5", ":", "1", "3">>
               /\ tickvals[i] = 3900 => ticktext[i] = <<"6", "5", ":", "0", "0">>

C6_Witness ==
    /\ pc = "done"
    /\ tickvals = <<1513, 3900>>
    /\ ticktext = << <<"2", "5", ":", "1", "3">>, <<"6", "5", ":", "0", "0">> >>

(***************************************************************************)
(* C7: if a row of the selected table has a Run Date that does not match   *)
(* day/month/4-digit-year or a Time that is no duration,                   *)
(* _parse_results_page raises: no result set is returned and the renderer  *)
(* is not invoked.  The code turns a missing Run Date into NaT and goes    *)
(* on.                                                                     *)
(***************************************************************************)
MatchesDayMonthYear(cell) ==
    LET f == Split(cell, "/")
    IN /\ Len(f) = 3
       /\ \A i \in 1..3 : f[i] # <<>> /\ AllDigits(f[i])
       /\ Len(f[1]) <= 2 /\ Len(f[2]) <= 2 /\ Len(f[3]) = 4

IsDuration(cell) ==
    cell # NaN /\ (IsDigitFields(cell, 2) \/ IsDigitFields(cell, 3))

C7_BadRowAborts ==
    (ParseDone /\ selected # 0
        /\ \E i \in 1..Len(SourceTable.rows) :
               \/ ~MatchesDayMonthYear(SourceTable.rows[i]["Run Date"])
               \/ ~IsDuration(SourceTable.rows[i]["Time"]))
    => /\ pc = "error"
       /\ error.type \in {"ValueError", "AttributeError"}
       /\ data_frame = NoFrame
       /\ Len(trace) = 2

(***************************************************************************)
(* C8: every run issues exactly one GET and never a second, whatever its   *)
(* outcome; the stages run in the order fetch, parse, render, each         *)
(* starting only after the one before it succeeded; every run ends with    *)
(* the chart written or an error raised.                                   *)
(***************************************************************************)
C8_StagesInOrder ==
    /\ getCount <= 1
    /\ Terminated => getCount = 1
    /\ trace = SubSeq(Stages, 1, Len(trace))
    /\ Len(trace) >= 2 =>
           /\ session = "closed"
           /\ response.status_code = 200
           /\ pc # "parse"
    /\ Len(trace) = 3 => /\ data_frame # NoFrame
                         /\ selected # 0
                         /\ pc # "render"
    /\ pc = "done" => file = "chart" /\ error = NoError
    /\ pc = "error" => error # NoError

C8_OneGetInOrderToTheEnd == []C8_StagesInOrder /\ <>Terminated

C8_Witness == pc = "done" /\ getCount = 1 /\ trace = Stages

(***************************************************************************)
(* C9: the session _request_results_page opens is closed when control      *)
(* leaves the function, whether the response is returned, the GET raises   *)
(* or the status check in the function raises; none is open while the      *)
(* page is parsed or the chart rendered, or when the run has ended.        *)
(***************************************************************************)
C9_SessionClosed ==
    /\ session = "open" <=> pc \in {"get", "raise_for_status"}
    /\ pc \in {"check_status", "parse", "render", "done", "error"}
           => session = "closed"

C9_Witness ==
    pc = "error" /\ error.type = "HTTPError" /\ session = "closed"

(***************************************************************************)
(* C10: _normalise_time_string returns a string of no, two or more colons  *)
(* as it is and prepends "00:" to a string of exactly one colon; its       *)
(* result never has exactly one colon, and applying it again changes       *)
(* nothing.                                                                *)
(***************************************************************************)
Colons(t) == Len(SelectSeq(t, LAMBDA c : c = ":"))

C10_NormaliseOnce ==
    ParseDone =>
        /\ Len(normalised) = 1
        /\ Colons(TheTime) # 1 => normalised[1] = TheTime
        /\ Colons(TheTime) = 1 => normalised[1] = <<"0", "0", ":">> \o TheTime
        /\ Colons(normalised[1]) # 1
        /\ _normalise_time_string(normalised[1]) = normalised[1]

C10_Witness ==
    /\ ParseDone
    /\ TheTime = <<"5", ":", "1", "0">>
    /\ normalised = << <<"0", "0", ":", "5", ":", "1", "0">> >>

=============================================================================
